---- MODULE Spec2Model ----
(***************************************************************************)
(* A model of npio.h, the header-only reader and writer of numpy .npy      *)
(* files.  Bytes and characters are integers 0..255, a text is a sequence  *)
(* of them, a pointer into a buffer is a 0-based offset from its start.    *)
(* A size_t is kept at its width: eight limbs of eight bits, least         *)
(* significant first, with the arithmetic done modulo 2^64.                *)
(***************************************************************************)
EXTENDS Integers, Sequences, FiniteSets, TLC

(***************************************************************************)
(* errno values the code returns                                           *)
(***************************************************************************)
\* open of a file that is not there
ENOENT == 2
EIO == 5
ENOMEM == 12
ENODEV == 19
EINVAL == 22
ESPIPE == 29
ERANGE == 34
ENOTSUP == 95
\* the call did not return: the process died of SIGSEGV
CRASHED == 1000

Max(x, y) == IF x >= y THEN x ELSE y
Min(x, y) == IF x <= y THEN x ELSE y

(***************************************************************************)
(* size_t: unsigned 64 bit arithmetic on limbs                             *)
(***************************************************************************)
\* the size_t with value n, for 0 <= n < 2^31
U64(n) ==
  <<n % 256, (n \div 256) % 256, (n \div 65536) % 256, n \div 16777216,
    0, 0, 0, 0>>

\* (size_t) v for an int v: sign extension of a negative value
SizeOfInt(v) ==
  IF v >= 0 THEN U64(v) ELSE [i \in 1..8 |-> 255 - U64(-(v + 1))[i]]

\* zero extension to k limbs
Ext(a, k) == [i \in 1..k |-> IF i <= Len(a) THEN a[i] ELSE 0]

\* the bytes f lists, held as a sequence
Memory(f) == Tail(<<0>> \o f)

\* the limbs of the number whose limb i holds cols[i], each below 2^23: the
\* carries run from limb i up, the carry out of the last limb is dropped
RECURSIVE Carry(_, _, _)
Carry(cols, i, c) ==
  IF i > Len(cols) THEN <<>>
  ELSE <<(cols[i] + c) % 256>> \o Carry(cols, i + 1, (cols[i] + c) \div 256)

\* a + b modulo 2^64
LimbAdd(a, b) == Carry([i \in 1..Len(a) |-> a[i] + b[i]], 1, 0)

\* a * m modulo 2^64, for a small m
LimbMulSmall(a, m) == Carry([i \in 1..Len(a) |-> a[i] * m], 1, 0)

\* the product of limb i of a and the limb of b that meets it in limb k
LimbProduct(a, b, k, i) == IF i <= k THEN a[i] * b[k + 1 - i] ELSE 0

\* a * b modulo 2^64, a and b of 8 limbs
LimbMul(a, b) ==
  Carry([k \in 1..8 |->
           LimbProduct(a, b, k, 1) + LimbProduct(a, b, k, 2)
           + LimbProduct(a, b, k, 3) + LimbProduct(a, b, k, 4)
           + LimbProduct(a, b, k, 5) + LimbProduct(a, b, k, 6)
           + LimbProduct(a, b, k, 7) + LimbProduct(a, b, k, 8)], 1, 0)

\* a / 8
LimbDiv8(a) ==
  [i \in 1..Len(a) |->
     (a[i] \div 8) + (IF i < Len(a) THEN (a[i + 1] % 8) * 32 ELSE 0)]

\* (ssize_t) a < 0
IsNegative(a) == a[8] >= 128

\* a < 2^31: the value fits an integer of the model
IsSmall(a) == a[4] < 128 /\ \A i \in 5..Len(a) : a[i] = 0

ToNat(a) == a[1] + 256 * a[2] + 65536 * a[3] + 16777216 * a[4]

\* two's complement negation
LimbNeg(a) == LimbAdd([i \in 1..Len(a) |-> 255 - a[i]], Ext(<<1>>, Len(a)))

\* the sum of the limbs of a above limb i, a of 8 limbs
Above(a, i) ==
  (IF i < 2 THEN a[2] ELSE 0) + (IF i < 3 THEN a[3] ELSE 0)
  + (IF i < 4 THEN a[4] ELSE 0) + (IF i < 5 THEN a[5] ELSE 0)
  + (IF i < 6 THEN a[6] ELSE 0) + (IF i < 7 THEN a[7] ELSE 0)
  + (IF i < 8 THEN a[8] ELSE 0)

\* what the long division by 10 carries into limb i: the number the limbs
\* above i hold, modulo 10 (256^k leaves 6 for every k > 0)
Rem10(a, i) == IF i >= 8 THEN 0 ELSE (a[i + 1] + 6 * Above(a, i + 1)) % 10

\* <<a / 10, a % 10>>, a of 8 limbs
DivMod10(a) ==
  <<Memory([i \in 1..8 |-> (Rem10(a, i) * 256 + a[i]) \div 10]), Rem10(a, 0)>>

IsZero(a) == \A i \in 1..Len(a) : a[i] = 0

\* the decimal digits of a, as characters
RECURSIVE DecDigits(_)
DecDigits(a) ==
  LET qr == DivMod10(a)
  IN (IF IsZero(qr[1]) THEN <<>> ELSE DecDigits(qr[1])) \o <<48 + qr[2]>>

\* printf("%ld") of a size_t: it is printed as a signed long
FormatLong(a) ==
  IF IsNegative(a) THEN <<45>> \o DecDigits(LimbNeg(a)) ELSE DecDigits(a)

\* printf("%d") of a small non-negative int
FormatInt(n) == DecDigits(U64(n))

(***************************************************************************)
(* Characters and texts                                                    *)
(***************************************************************************)
\* "descr", "shape", "fortran_order", "True", "False", "\x93NUMPY"
S_descr == <<100, 101, 115, 99, 114>>
S_shape == <<115, 104, 97, 112, 101>>
S_fortran_order == <<102, 111, 114, 116, 114, 97, 110, 95, 111, 114, 100, 101, 114>>
S_True == <<84, 114, 117, 101>>
S_False == <<70, 97, 108, 115, 101>>
S_magic == <<147, 78, 85, 77, 80, 89>>

\* isspace() in the C locale: space, \t, \n, \v, \f, \r
isspace(c) == c = 32 \/ (c >= 9 /\ c <= 13)
\* the characters isspace accepts
Spacing == {c \in 0..255 : isspace(c)}

\* '0' <= c <= '9'
IsDigit(c) == c >= 48 /\ c <= 57
\* the characters '0' to '9'
Digits09 == {c \in 0..255 : IsDigit(c)}

\* *(b + p); a read outside the buffer yields the byte g that lies there
Byte(b, p, g) == IF p >= 0 /\ p < Len(b) THEN b[p + 1] ELSE g

\* memcmp(b + p, lit, Len(lit)) == 0
MemEq(b, p, lit, g) == \A i \in 1..Len(lit) : Byte(b, p + i - 1, g) = lit[i]

\* the bytes [from, to) of b
Slice(b, from, to, g) ==
  Memory([i \in 1..(to - from) |-> Byte(b, from + i - 1, g)])

(***************************************************************************)
(* npio_Array.  Pointers: dtype is <<>> (null) or the NUL-terminated text; *)
(* shape is <<>> (null) or the cells of the allocation, each a size_t;     *)
(* data is a record naming where it points; _buf is "null" or "buf";       *)
(* _hdr_buf is <<>> (null) or the bytes of the allocation.  The g_ fields  *)
(* are not in the struct: they record what the calls did to memory:        *)
(* g_rd, one past the highest offset read in the parsed buffer; g_oobw, a  *)
(* write outside the shape allocation; g_leaks, the allocations whose only *)
(* pointer was overwritten; g_null, a read through a null dtype.           *)
(***************************************************************************)
NullData == [kind |-> "null", off |-> 0, mem |-> <<>>]

\* the struct before npio_init_array: only _opened matters later, the
\* initialisation assigns every other field
RawArray(opened) ==
  [major_version |-> 0, minor_version |-> 0, header_len |-> U64(0),
   dtype |-> <<>>, dim |-> 0, shape |-> <<>>, size |-> U64(0),
   fortran_order |-> 0, little_endian |-> 0, floating_point |-> 0,
   is_signed |-> 0, bit_width |-> 0, data |-> NullData,
   _fd |-> 0, _buf |-> "null", _buf_size |-> 0, _hdr_buf |-> <<>>,
   _shape_capacity |-> 0, _mmapped |-> 0, _malloced |-> 0,
   _opened |-> opened,
   g_rd |-> 0, g_oobw |-> FALSE, g_leaks |-> 0, g_null |-> FALSE]

\* the host is little endian or not: __BYTE_ORDER__ == __ORDER_LITTLE_ENDIAN__
npio_init_array(array, host_le) ==
  [array EXCEPT
     !.major_version = 1, !.minor_version = 0, !.header_len = U64(0),
     !.dtype = <<>>, !.dim = 0, !.shape = <<>>, !.size = U64(0),
     !.fortran_order = 0, !.little_endian = IF host_le THEN 1 ELSE 0,
     !.floating_point = 1, !.is_signed = 1, !.bit_width = 32,
     !.data = NullData, !._fd = 0, !._buf = "null", !._buf_size = 0,
     !._hdr_buf = <<>>, !._shape_capacity = 0, !._mmapped = 0,
     !._malloced = 0]

\* array->shape[i]; outside the cells lies garbage
ShapeCell(array, i, g) ==
  IF i < Len(array.shape) THEN array.shape[i + 1] ELSE [k \in 1..8 |-> g]

RECURSIVE ArraySizeFrom(_, _, _, _)
ArraySizeFrom(array, i, n, g) ==
  IF i >= array.dim THEN n
  ELSE LET m == LimbMul(n, ShapeCell(array, i, g))
       \* n *= array->shape[i] is carried out at each turn of the loop
       IN IF Len(m) = 8 THEN ArraySizeFrom(array, i + 1, m, g) ELSE m

npio_array_size(array, g) == ArraySizeFrom(array, 0, U64(1), g)

npio_array_memsize(array, g) ==
  LimbDiv8(LimbMul(npio_array_size(array, g), U64(array.bit_width)))

(***************************************************************************)
(* The parser of the header dictionary.  Every parser returns              *)
(* [err, a, p]: the return value, the array and the cursor.                *)
(***************************************************************************)
Rd(array, upto) == [array EXCEPT !.g_rd = Max(@, upto)]

\* while (p < end && *p is one of keep) ++p: where the loop stops
\* (outside the buffer every byte is g: the loop stops at the first of them
\* or runs on to end)
ScanWhile(b, p, end, g, keep) ==
  LET inside == Min(end, Max(p, Len(b)))
      stops == {q \in p..(inside - 1) : Byte(b, q, g) \notin keep}
  IN IF p >= end THEN p
     ELSE IF stops # {} THEN CHOOSE q \in stops : \A r \in stops : q <= r
     ELSE IF inside = end \/ g \notin keep THEN inside
     ELSE end

npio_ph_skip_spaces_(b, p, end, g) == ScanWhile(b, p, end, g, Spacing)

\* one past the highest offset a scan from p that stopped at q has read
Scanned(p, q, end) == IF q < end THEN q + 1 ELSE IF q > p THEN q ELSE 0

npio_ph_shape_append_(array, val, g) ==
  LET grow == array.dim = array._shape_capacity
      cap == IF grow THEN 2 * array._shape_capacity ELSE array._shape_capacity
      \* realloc keeps the old cells, the new ones are not initialised
      cells == IF grow
               THEN [i \in 1..cap |-> IF i <= Len(array.shape)
                                       THEN array.shape[i] ELSE [k \in 1..8 |-> g]]
               ELSE array.shape
      \* array->shape[array->dim++] = val, inside the allocation or past it
      stored == [i \in 1..Max(Len(cells), array.dim + 1) |->
                   IF i = array.dim + 1 THEN val
                   ELSE IF i <= Len(cells) THEN cells[i] ELSE [k \in 1..8 |-> g]]
  \* realloc succeeds
  IN [err |-> 0,
      a |-> [array EXCEPT !._shape_capacity = cap, !.shape = Memory(stored),
                          !.dim = array.dim + 1,
                          !.g_oobw = @ \/ array.dim >= cap]]

\* while (p < end && *p >= '0' && *p <= '9') ++p
SkipDigits(b, p, end, g) == ScanWhile(b, p, end, g, Digits09)

\* val = (*nbeg++ - '0') + val * 10, over [nbeg, nend); val is compared so
\* that it is computed at every turn, it always has 8 limbs
RECURSIVE DecValue(_, _, _, _, _)
DecValue(b, nbeg, nend, val, g) ==
  IF nbeg >= nend \/ Len(val) # 8 THEN val
  ELSE DecValue(b, nbeg + 1, nend,
                LimbAdd(U64(Byte(b, nbeg, g) - 48), LimbMulSmall(val, 10)), g)

\* one turn of the loop over the dimensions, from cursor p; where the loop
\* goes round once more the result has the field again
ShapeTurn(array, b, p, end, g) ==
  LET \* after the second skip of spaces, at q; ap is what the append returned
      Separator(ap, nend, q) ==
        IF ap.err # 0 THEN [err |-> ap.err, a |-> ap.a, p |-> nend]
        ELSE IF q = end
             THEN [err |-> EINVAL, a |-> Rd(ap.a, Scanned(nend, q, end)), p |-> q]
        ELSE IF Byte(b, q, g) = 44
             THEN [err |-> 0, a |-> Rd(ap.a, Scanned(nend, q, end)), p |-> q + 1,
                   again |-> TRUE]
        ELSE IF Byte(b, q, g) = 41
             THEN [err |-> 0, a |-> Rd(ap.a, Scanned(nend, q, end)), p |-> q + 1]
        ELSE [err |-> EINVAL, a |-> Rd(ap.a, Scanned(nend, q, end)), p |-> q]
      \* the digits are [nbeg, nend); a1 is the array, the reads recorded
      Number(a1, nbeg, nend) ==
        IF nend = end THEN [err |-> EINVAL, a |-> a1, p |-> nend]
        ELSE Separator(IF nbeg < nend
                       THEN npio_ph_shape_append_(
                              a1, DecValue(b, nbeg, nend, U64(0), g), g)
                       ELSE [err |-> 0, a |-> a1],
                       nend, npio_ph_skip_spaces_(b, nend, end, g))
      Digits(nbeg, nend) ==
        Number(Rd(array, Max(Scanned(p, nbeg, end), Scanned(nbeg, nend, end))),
               nbeg, nend)
      Turn(nbeg) == Digits(nbeg, SkipDigits(b, nbeg, end, g))
  IN Turn(npio_ph_skip_spaces_(b, p, end, g))

RECURSIVE ShapeLoop(_, _, _, _, _)
ShapeLoop(array, b, p, end, g) ==
  LET Round(t) ==
        IF "again" \in DOMAIN t THEN ShapeLoop(t.a, b, t.p, end, g) ELSE t
  IN Round(ShapeTurn(array, b, p, end, g))

npio_ph_parse_shape_(array, b, start, end, g) ==
  IF start = end THEN [err |-> EINVAL, a |-> array, p |-> start]
  ELSE IF Byte(b, start, g) # 40
       THEN [err |-> EINVAL, a |-> Rd(array, start + 1), p |-> start + 1]
  ELSE LET Finish(r) ==
             IF r.err # 0 THEN r
             ELSE [r EXCEPT !.a.size = npio_array_size(r.a, g)]
       IN Finish(ShapeLoop(
            [Rd(array, start + 1) EXCEPT
               !._shape_capacity = 8,
               \* malloc: the old allocation, if any, is not freed
               !.g_leaks = @ + (IF array.shape # <<>> THEN 1 ELSE 0),
               !.shape = [i \in 1..8 |-> [k \in 1..8 |-> g]]],
            b, start + 1, end, g))

\* strlen
RECURSIVE StrLenFrom(_, _)
StrLenFrom(s, i) == IF i > Len(s) \/ s[i] = 0 THEN i - 1 ELSE StrLenFrom(s, i + 1)
strlen(s) == StrLenFrom(s, 1)

\* a null dtype is read through: on a host that maps no page at 0 the call
\* dies, elsewhere strlen runs over whatever lies there (null_text)
npio_ph_parse_dtype_(array, null_page, null_text) ==
  LET unset == array.dtype = <<>>
      dtype == IF unset THEN null_text ELSE array.dtype
      c0 == dtype[1]
      c1 == dtype[2]
      c2 == dtype[3]
      a0 == [array EXCEPT !.g_null = @ \/ unset]
      a1 == [a0 EXCEPT !.little_endian = IF c0 = 60 THEN 1 ELSE 0]
      a2 == [a1 EXCEPT !.is_signed = IF c1 = 117 THEN 0 ELSE 1,
                       !.floating_point = IF c1 = 102 THEN 1 ELSE 0]
      a3 == [a2 EXCEPT !.bit_width =
               CASE c2 = 49 -> 8 [] c2 = 50 -> 16 [] c2 = 52 -> 32 [] OTHER -> 64]
  IN IF unset /\ ~null_page THEN [err |-> CRASHED, a |-> a0]
     ELSE IF strlen(dtype) # 3 THEN [err |-> ENOTSUP, a |-> a0]
     ELSE IF c0 \notin {60, 62} THEN [err |-> ENOTSUP, a |-> a0]
     ELSE IF c1 \notin {105, 117, 102} THEN [err |-> ENOTSUP, a |-> a1]
     ELSE IF c2 \notin {49, 50, 52, 56} THEN [err |-> ENOTSUP, a |-> a2]
     ELSE [err |-> 0, a |-> a3]

npio_ph_is_quote_(c) == c = 39 \/ c = 34

\* while (p < end && *p != open_quote) ++p
ScanTo(b, p, end, c, g) == ScanWhile(b, p, end, g, (0..255) \ {c})

\* the value of a key, from the first character of the value
DictValue(array, b, key, p, end, g) ==
  CASE key = "descr" ->
         LET open_quote == Byte(b, p, g)
             Descr(dtend) ==
               IF dtend = end
               THEN [err |-> EINVAL, p |-> dtend,
                     a |-> Rd(array, Max(p + 1, Scanned(p + 1, dtend, end)))]
               ELSE [err |-> 0, p |-> dtend + 1,
                     a |-> [Rd(array, Max(p + 1, Scanned(p + 1, dtend, end))) EXCEPT
                              \* malloc: the old text, if any, is not freed
                              !.g_leaks = @ + (IF array.dtype # <<>> THEN 1 ELSE 0),
                              !.dtype = Slice(b, p + 1, dtend, g) \o <<0>>]]
         IN IF ~npio_ph_is_quote_(open_quote)
            THEN [err |-> EINVAL, a |-> Rd(array, p + 1), p |-> p + 1]
            ELSE Descr(ScanTo(b, p + 1, end, open_quote, g))
    [] key = "fortran_order" ->
         IF p + 4 < end /\ MemEq(b, p, S_True, g)
         THEN [err |-> 0, p |-> p + 4,
               a |-> [Rd(array, p + 4) EXCEPT !.fortran_order = 1]]
         ELSE IF p + 5 < end /\ MemEq(b, p, S_False, g)
         THEN [err |-> 0, p |-> p + 5,
               a |-> [Rd(array, p + 5) EXCEPT !.fortran_order = 0]]
         ELSE [err |-> EINVAL, p |-> p,
               a |-> Rd(array, IF p + 5 < end THEN p + 5
                               ELSE IF p + 4 < end THEN p + 4 ELSE 0)]
    [] OTHER -> npio_ph_parse_shape_(array, b, p, end, g)

\* one turn of the loop over the key-value pairs, from cursor p0; where the
\* loop goes round once more the result has the field again
DictTurn(array, b, p0, end, g) ==
  LET \* after the value v, the spaces behind it skipped up to p6
      Comma(v, p6) ==
        IF p6 = end
        THEN [err |-> EINVAL, a |-> Rd(v.a, Scanned(v.p, p6, end)), p |-> p6]
        ELSE [err |-> 0, a |-> Rd(v.a, Scanned(v.p, p6, end)),
              p |-> IF Byte(b, p6, g) = 44 THEN p6 + 1 ELSE p6, again |-> TRUE]
      AfterValue(v) ==
        IF v.err # 0 THEN v ELSE Comma(v, npio_ph_skip_spaces_(b, v.p, end, g))
      \* the value starts at p5
      Value(a4, key, p4, p5) ==
        IF p5 = end
        THEN [err |-> EINVAL, p |-> p5,
              a |-> Rd(a4, Max(p4 + 1, Scanned(p4 + 1, p5, end)))]
        ELSE AfterValue(DictValue(
               Rd(a4, Max(p4 + 1, Scanned(p4 + 1, p5, end))), b, key, p5, end, g))
      \* the colon is expected at p4
      Colon(a4, key, p4) ==
        IF p4 >= end THEN [err |-> EINVAL, a |-> a4, p |-> p4]
        ELSE IF Byte(b, p4, g) # 58 THEN [err |-> EINVAL, a |-> a4, p |-> p4 + 1]
        ELSE Value(a4, key, p4, npio_ph_skip_spaces_(b, p4 + 1, end, g))
      ToColon(a3, key, p3, p4) ==
        Colon(Rd(a3, Max(p3 + 1, Scanned(p3 + 1, p4, end))), key, p4)
      \* the close quote of the key is expected at p3
      CloseQuote(a3, open_quote, key, p3) ==
        IF p3 >= end THEN [err |-> EINVAL, a |-> a3, p |-> p3]
        ELSE IF Byte(b, p3, g) # open_quote
             THEN [err |-> EINVAL, a |-> Rd(a3, p3 + 1), p |-> p3 + 1]
        ELSE ToColon(a3, key, p3, npio_ph_skip_spaces_(b, p3 + 1, end, g))
      \* the key starts at p2; the memcmp calls read up to 13 bytes
      Key(a1, open_quote, p2, key) ==
        IF key = "none"
        THEN [err |-> EINVAL, p |-> p2,
              a |-> Rd(a1, IF p2 + 13 < end THEN p2 + 13
                           ELSE IF p2 + 5 < end THEN p2 + 5 ELSE 0)]
        ELSE CloseQuote(
               Rd(a1, IF p2 + 13 < end /\ key = "fortran_order" THEN p2 + 13
                      ELSE IF p2 + 5 < end THEN p2 + 5 ELSE 0),
               open_quote, key,
               p2 + (IF key = "fortran_order" THEN 13 ELSE 5))
      Pair(a1, p1) ==
        IF p1 >= end THEN [err |-> EINVAL, a |-> a1, p |-> p1]
        ELSE IF Byte(b, p1, g) = 125 THEN [err |-> 0, a |-> a1, p |-> p1 + 1]
        ELSE IF ~npio_ph_is_quote_(Byte(b, p1, g))
             THEN [err |-> EINVAL, a |-> a1, p |-> p1 + 1]
        ELSE Key(a1, Byte(b, p1, g), p1 + 1,
                 IF p1 + 6 < end /\ MemEq(b, p1 + 1, S_descr, g) THEN "descr"
                 ELSE IF p1 + 6 < end /\ MemEq(b, p1 + 1, S_shape, g) THEN "shape"
                 ELSE IF p1 + 14 < end /\ MemEq(b, p1 + 1, S_fortran_order, g)
                      THEN "fortran_order"
                 ELSE "none")
      Turn(p1) == Pair(Rd(array, Scanned(p0, p1, end)), p1)
  IN Turn(npio_ph_skip_spaces_(b, p0, end, g))

RECURSIVE DictLoop(_, _, _, _, _)
DictLoop(array, b, p0, end, g) ==
  LET Round(t) ==
        IF "again" \in DOMAIN t THEN DictLoop(t.a, b, t.p, end, g) ELSE t
  IN Round(DictTurn(array, b, p0, end, g))

\* env: the build and the platform (see Env)
npio_ph_parse_dict_(array, b, start, end, env) ==
  IF start >= end THEN [err |-> EINVAL, a |-> array, p |-> start]
  ELSE IF Byte(b, start, env.g) # 123
       THEN [err |-> EINVAL, a |-> Rd(array, start + 1), p |-> start + 1]
  ELSE LET Dtype(d, p) == [err |-> d.err, a |-> d.a, p |-> p]
           Finish(r) ==
             IF r.err # 0 THEN r
             ELSE Dtype(npio_ph_parse_dtype_(r.a, env.null_page, env.null_text),
                        r.p)
       IN Finish(DictLoop(Rd(array, start + 1), b, start + 1, end, env.g))

(***************************************************************************)
(* The prelude: magic, version, HEADER_LEN                                 *)
(***************************************************************************)
\* the value of a byte read through a char*: char is signed or unsigned, as
\* the build has it
CharOf(byte, char_signed) ==
  IF char_signed /\ byte >= 128 THEN byte - 256 ELSE byte

\* low + (c3 << 24) in a 32 bit int; where the sum leaves the int range the
\* value wraps, as it does on two's complement hardware
Int32Sum(low, c3) ==
  LET high == (c3 + (low \div 16777216)) % 256
      rest == low % 16777216
  IN IF high >= 128 THEN (high - 256) * 16777216 + rest
     ELSE high * 16777216 + rest

\* [err, a, p]: p is the offset after the prelude
npio_load_header_prelude_(b, array, env) ==
  LET c(i) == CharOf(Byte(b, i, env.g), env.char_signed)
      major == c(6)
      a1 == [array EXCEPT !.major_version = major, !.minor_version = c(7)]
  IN IF ~MemEq(b, 0, S_magic, env.g) THEN [err |-> EINVAL, a |-> array, p |-> 0]
     ELSE IF major = 1
     THEN [err |-> 0, p |-> 10,
           a |-> [a1 EXCEPT !.header_len = SizeOfInt(c(8) + c(9) * 256)]]
     ELSE IF major = 2
     THEN [err |-> 0, p |-> 12,
           a |-> [a1 EXCEPT !.header_len =
                    SizeOfInt(Int32Sum(c(8) + c(9) * 256 + c(10) * 65536, c(11)))]]
     ELSE [err |-> ENOTSUP, a |-> a1, p |-> 8]

\* a size_t as the signed integer with the same 64 bits, when that is small
\* (below -2^31 + 1 the model keeps only that it is at most that)
ToInt(a) ==
  IF ~IsNegative(a) THEN ToNat(a)
  ELSE IF IsSmall(LimbNeg(a)) THEN -ToNat(LimbNeg(a)) ELSE -2147483647

\* npio_load_header_mem4 on the buffer b of sz = Len(b) bytes
npio_load_header_mem4(b, array, env) ==
  LET sz == Len(b)
      \* p + header_len: with a header_len of 2^64 - k the pointer wraps to
      \* p - k, unless the buffer lies at an address below k
      Dict(a1, p, hl) ==
        npio_ph_parse_dict_(
          a1, b, p,
          IF (hl >= 0 \/ ~env.buf_low) /\ p + hl < sz THEN p + hl ELSE sz, env)
      Prelude(r) ==
        IF r.err # 0
        THEN [err |-> r.err, p |-> r.p,
              a |-> Rd(r.a, IF r.err = EINVAL THEN 6 ELSE 8)]
        ELSE Dict(Rd(r.a, r.p), r.p, ToInt(r.a.header_len))
  IN IF sz < 16 THEN [err |-> EINVAL, a |-> array, p |-> 0]
     ELSE Prelude(npio_load_header_prelude_(
            b,
            IF array._mmapped = 0
            THEN [array EXCEPT !._buf = "buf", !._buf_size = sz]
            ELSE array,
            env))

(***************************************************************************)
(* The world outside: w.file is the file behind descriptor TheFd and       *)
(* w.pos its offset, w.stdin the bytes waiting on descriptor 0 and         *)
(* w.stdin_pos how many of them were read, w.errno is errno, w.sink the    *)
(* bytes the writes stored, w.reads and w.writes the read and write calls  *)
(* made, in order, each with its buffer, its count and what it returned.   *)
(* A read or write call behaves in one of three ways: "full" transfers     *)
(* what was asked for or what is there, "short" transfers one byte less    *)
(* and leaves errno alone, "fail" returns -1 and sets errno.               *)
(***************************************************************************)
TheFd == 3

Behaviours == {"full", "short", "fail"}

\* read(fd, dest, count): [n, data, w]
Read(w, fd, dest, count, beh, g) ==
  LET src == IF fd = 0 THEN w.stdin ELSE w.file
      at == IF fd = 0 THEN w.stdin_pos ELSE w.pos
      avail == Min(count, Max(Len(src) - at, 0))
      n == IF beh = "short" THEN Max(avail - 1, 0) ELSE avail
      call(k) == [fd |-> fd, buf |-> dest, count |-> count, n |-> k]
  IN IF beh = "fail"
     THEN [n |-> -1, data |-> <<>>,
           w |-> [w EXCEPT !.errno = EIO, !.reads = Append(@, call(-1))]]
     ELSE [n |-> n, data |-> Slice(src, at, at + n, g),
           w |-> IF fd = 0
                 THEN [w EXCEPT !.stdin_pos = at + n, !.reads = Append(@, call(n))]
                 ELSE [w EXCEPT !.pos = at + n, !.reads = Append(@, call(n))]]

\* bytes, followed by uninitialised memory up to n bytes in all
PadTo(bytes, n, g) ==
  Memory([i \in 1..Max(n, Len(bytes)) |-> Byte(bytes, i - 1, g)])

\* where the end pointer of npio_load_header_fd_read_ lies, seen from the
\* heap, when the stack is above the heap
FarAbove == 1000000

\* beh: the behaviours of the read calls, in order
npio_load_header_fd_read_(w, fd, array, max_dim, env, beh) ==
  LET \* end points into prelude[], on the stack, the cursor into the heap
      end == IF env.heap_below_stack THEN FarAbove ELSE -1
      Parsed(d, w2) == [err |-> d.err, a |-> d.a, w |-> w2]
      Dict(a, p, hdr_buf, w2) ==
        Parsed(npio_ph_parse_dict_([a EXCEPT !._hdr_buf = hdr_buf],
                                   hdr_buf, p, end, env), w2)
      \* the second read stores the dictionary in _hdr_buf, behind the prelude
      Header(pr, prelude, hl, r2) ==
        Dict(pr.a, pr.p, prelude \o PadTo(r2.data, hl, env.g), r2.w)
      Prelude(pr, prelude, w1) ==
        IF pr.err # 0 THEN [err |-> pr.err, a |-> pr.a, w |-> w1]
        ELSE IF ~IsSmall(pr.a.header_len)
                \/ ToNat(pr.a.header_len) > 1024 + max_dim * 20
             THEN [err |-> ERANGE, a |-> pr.a, w |-> w1]
        ELSE Header(pr, prelude, ToNat(pr.a.header_len),
                    Read(w1, fd, "_hdr_buf", ToNat(pr.a.header_len), beh[2],
                         env.g))
      Decode(prelude, w1) ==
        Prelude(npio_load_header_prelude_(prelude, array, env), prelude, w1)
      First(r1) ==
        IF r1.n < 12 THEN [err |-> r1.w.errno, a |-> array, w |-> r1.w]
        ELSE Decode(PadTo(r1.data, 12, env.g), r1.w)
  IN First(Read(w, fd, "prelude", 12, beh[1], env.g))

\* seek_ok, map_ok: whether lseek and mmap succeed on the descriptor
npio_load_header_fd3(w, fd, array, max_dim, env, seek_ok, map_ok, beh) ==
  LET a0 == IF array._opened = 0 THEN [array EXCEPT !._fd = fd] ELSE array
      file_size == Len(w.file)
      Mapped(m) == [err |-> m.err, a |-> m.a, w |-> [w EXCEPT !.pos = file_size]]
  IN IF ~seek_ok \/ ~map_ok \/ file_size = 0
     \* the fall back: lseek or mmap failed and left its errno
     THEN npio_load_header_fd_read_(
            IF ~seek_ok THEN [w EXCEPT !.errno = ESPIPE]
            ELSE [w EXCEPT !.pos = file_size,
                           !.errno = IF map_ok THEN EINVAL ELSE ENODEV],
            fd, a0, max_dim, env, beh)
     ELSE Mapped(npio_load_header_mem4(
            w.file,
            [a0 EXCEPT !._mmapped = 1, !._buf = "buf", !._buf_size = file_size],
            env))

(***************************************************************************)
(* Byte order                                                              *)
(***************************************************************************)
\* a swap that stores *a in *b before it saved *b
SwapWithoutTemp(mem, i, j, g) ==
  Memory([k \in 1..Max(Len(mem), Max(i, j) + 1) |->
            IF k = j + 1 THEN Byte(mem, i, g) ELSE Byte(mem, k - 1, g)])

npio_swap_bytes_(mem, i, j, g) ==
  Memory([k \in 1..Max(Len(mem), Max(i, j) + 1) |->
            IF k = i + 1 THEN Byte(mem, j, g)
            ELSE IF k = j + 1 THEN Byte(mem, i, g) ELSE Byte(mem, k - 1, g)])

\* the swaps of one element of w bytes at offset p
SwapElement(mem, p, w, g) ==
  IF w = 2 THEN npio_swap_bytes_(mem, p, p + 1, g)
  ELSE IF w = 4
  THEN npio_swap_bytes_(npio_swap_bytes_(mem, p, p + 3, g), p + 1, p + 2, g)
  ELSE npio_swap_bytes_(npio_swap_bytes_(npio_swap_bytes_(npio_swap_bytes_(
         mem, p, p + 7, g), p + 1, p + 6, g), p + 2, p + 5, g), p + 3, p + 4, g)

\* the loop over the elements: element i is swapped before the loop goes on,
\* and the memory then reaches to the end of that element
RECURSIVE SwapLoop(_, _, _, _, _)
SwapLoop(mem, i, n, w, g) ==
  LET Swapped(m) ==
        IF Len(m) >= (i + 1) * w THEN SwapLoop(m, i + 1, n, w, g) ELSE m
  IN IF i >= n THEN mem ELSE Swapped(SwapElement(mem, i * w, w, g))

\* n is a size_t; [err, mem, oob]: oob, a byte outside data was touched
npio_swap_bytes(n, bit_width, mem, g) ==
  IF bit_width = 8 THEN [err |-> 0, mem |-> mem, oob |-> FALSE]
  ELSE IF bit_width \notin {16, 32, 64}
  THEN [err |-> ENOTSUP, mem |-> mem, oob |-> FALSE]
  ELSE IF ~IsSmall(n) \/ ToNat(n) * (bit_width \div 8) > Len(mem) + 64
  THEN [err |-> CRASHED, mem |-> mem, oob |-> TRUE]
  ELSE [err |-> 0, mem |-> SwapLoop(mem, 0, ToNat(n), bit_width \div 8, g),
        oob |-> ToNat(n) * (bit_width \div 8) > Len(mem)]

(***************************************************************************)
(* Loading the data                                                        *)
(***************************************************************************)
\* [err, a, w]; beh is the behaviour of the read call
npio_load_data2(w, array, swap_bytes, env, beh) ==
  LET host == IF env.host_le THEN 1 ELSE 0
      Swapped(sw, a1, w1) ==
        [err |-> sw.err, w |-> w1,
         a |-> [a1 EXCEPT !.little_endian = host, !.data.mem = sw.mem,
                          !.g_oobw = @ \/ sw.oob]]
      \* array->data is set
      Swap(a1, w1) ==
        IF swap_bytes # 0 /\ host # array.little_endian
        THEN Swapped(npio_swap_bytes(a1.size, a1.bit_width, a1.data.mem, env.g),
                     a1, w1)
        ELSE [err |-> 0, a |-> a1, w |-> w1]
      Mapped(data_offset, off, memsize) ==
        IF LimbAdd(data_offset, memsize) # U64(array._buf_size)
        THEN [err |-> EINVAL, a |-> array, w |-> w]
        ELSE Swap([array EXCEPT !.data =
                     [kind |-> "map", off |-> off,
                      mem |-> Slice(w.file, off, Max(off, array._buf_size),
                                    env.g)]],
                  w)
      \* the data was read into the allocation of sz bytes
      Filled(r, count) ==
        IF r.n # count
        THEN [err |-> r.w.errno, w |-> r.w,
              a |-> [array EXCEPT !.data =
                       [kind |-> "heap", off |-> 0,
                        mem |-> PadTo(r.data, count, env.g)]]]
        ELSE Swap([array EXCEPT !.data =
                     [kind |-> "heap", off |-> 0,
                      mem |-> PadTo(r.data, count, env.g)]],
                  r.w)
      \* a request too large for the model: the read returns less
      Large(r) ==
        [err |-> r.w.errno, w |-> r.w,
         a |-> [array EXCEPT !.data =
                  [kind |-> "heap", off |-> 0, mem |-> r.data]]]
      Buffered(sz) ==
        IF IsNegative(sz) THEN [err |-> ERANGE, a |-> array, w |-> w]
        ELSE IF env.malloc0_null /\ IsZero(sz)
        THEN [err |-> ENOMEM, a |-> array, w |-> w]
        ELSE IF ~IsSmall(sz)
        THEN Large(Read(w, array._fd, "data", 2147483647, beh, env.g))
        ELSE Filled(Read(w, array._fd, "data", ToNat(sz), beh, env.g), ToNat(sz))
      Data(data_offset) ==
        IF data_offset[1] % 16 # 0 THEN [err |-> EINVAL, a |-> array, w |-> w]
        ELSE IF array._mmapped # 0
        THEN Mapped(data_offset, ToInt(data_offset),
                    npio_array_memsize(array, env.g))
        ELSE Buffered(LimbDiv8(LimbMul(array.size, U64(array.bit_width))))
  IN Data(LimbAdd(array.header_len,
                  U64(6 + (IF array.major_version = 1 THEN 4 ELSE 6))))

npio_load_data(w, array, env, beh) == npio_load_data2(w, array, 1, env, beh)

npio_load_fd3(w, fd, array, max_dim, env, seek_ok, map_ok, beh) ==
  LET Header(h) == IF h.err # 0 THEN h ELSE npio_load_data(h.w, h.a, env, beh[3])
  IN Header(npio_load_header_fd3(w, fd, array, max_dim, env, seek_ok, map_ok,
                                  beh))

\* the buffer is not part of the world: b
npio_load_mem4(w, b, array, env, beh) ==
  LET Header(h) ==
        IF h.err # 0 THEN [err |-> h.err, a |-> h.a, w |-> w]
        ELSE npio_load_data(w, h.a, env, beh)
  IN Header(npio_load_header_mem4(b, array, env))

\* open_ok: whether open(filename, O_RDONLY) succeeds; it returns TheFd.
\* [err, a, w, events]: events, the open and close calls made, in order
npio_load_header3(w, array, max_dim, env, open_ok, seek_ok, map_ok, beh) ==
  LET \* we don't need to hang on the fd if we managed to map
      Loaded(h) ==
        IF h.a._mmapped # 0
        THEN [err |-> h.err, w |-> h.w, events |-> <<"open", "close">>,
              a |-> [h.a EXCEPT !._fd = -1, !._opened = 0]]
        ELSE [err |-> h.err, w |-> h.w, events |-> <<"open">>, a |-> h.a]
  IN IF ~open_ok
     THEN [err |-> ENOENT, a |-> array, w |-> [w EXCEPT !.errno = ENOENT],
           events |-> <<>>]
     ELSE Loaded(npio_load_header_fd3(
            w, TheFd, [array EXCEPT !._fd = TheFd, !._opened = 1], max_dim,
            env, seek_ok, map_ok, beh))

npio_load3(w, array, max_dim, env, open_ok, seek_ok, map_ok, beh) ==
  LET Loaded(r) ==
        [err |-> r.err, a |-> r.a, w |-> r.w, events |-> <<"open", "close">>]
  IN IF ~open_ok
     THEN [err |-> ENOENT, a |-> array, w |-> [w EXCEPT !.errno = ENOENT],
           events |-> <<>>]
     ELSE Loaded(npio_load_fd3(w, TheFd, array, max_dim, env, seek_ok, map_ok,
                               beh))

(***************************************************************************)
(* Saving                                                                  *)
(***************************************************************************)
\* the texts of the format strings: {"descr": "   ", "   "fortran_order":
\* ", "   "shape": (   )} and the separator after a dimension
S_open_descr == <<123, 34, 100, 101, 115, 99, 114, 34, 58, 32, 34>>
S_close_item == <<34, 44, 32>>
S_fortran_key == <<34, 102, 111, 114, 116, 114, 97, 110, 95, 111, 114, 100, 101, 114, 34, 58, 32>>
S_item_sep == <<44, 32>>
S_shape_key == <<34, 115, 104, 97, 112, 101, 34, 58, 32, 40>>
S_close_dict == <<41, 125, 32>>

\* bytes stored at offset at; the buffer is the sequence of the bytes up to
\* the highest one written, so Len(mem) tells how far the writes went
Put(mem, at, bytes, g) ==
  Memory([k \in 1..Max(Len(mem), at + Len(bytes)) |->
            IF k > at /\ k <= at + Len(bytes) THEN bytes[k - at]
            ELSE Byte(mem, k - 1, g)])

\* sprintf and snprintf store the text and a terminating NUL
sprintf(mem, at, text, g) == Put(mem, at, text \o <<0>>, g)

snprintf(mem, at, size, text, g) ==
  IF size <= 0 THEN mem
  ELSE Put(mem, at, SubSeq(text, 1, Min(Len(text), size - 1)) \o <<0>>, g)

\* one turn of the loop over the dimensions: [err, mem, hdr], with the field
\* again where the loop goes round once more
SaveDimension(mem, hdr, i, array, sz, g) ==
  LET Printed(mem1, hdr1) ==
        IF hdr1 >= sz - 3 THEN [err |-> ERANGE, mem |-> mem1, hdr |-> hdr1]
        ELSE [err |-> 0, mem |-> mem1, hdr |-> hdr1, again |-> TRUE]
      Dimension(text) ==
        Printed(snprintf(mem, hdr, sz - hdr, text, g), hdr + Len(text))
  IN Dimension(FormatLong(ShapeCell(array, i, g)) \o S_item_sep)

\* the loop over the dimensions: [err, mem, hdr]
RECURSIVE SaveShape(_, _, _, _, _, _)
SaveShape(mem, hdr, i, array, sz, g) ==
  LET Round(t) ==
        IF "again" \in DOMAIN t
        THEN SaveShape(t.mem, t.hdr, i + 1, array, sz, g) ELSE t
  IN IF i >= array.dim THEN [err |-> 0, mem |-> mem, hdr |-> hdr]
     ELSE Round(SaveDimension(mem, hdr, i, array, sz, g))

\* [err, mem, out] for a destination of sz bytes; out is the offset of *out
npio_save_header_mem(sz, array, g) ==
  LET \* the newline over the last byte, then HEADER_LEN in bytes 8 and 9
      Finish(m5, h5) ==
        IF (h5 - sz) % 16 # 0 THEN [err |-> ERANGE, mem |-> m5, out |-> 0]
        ELSE [err |-> 0, out |-> h5,
              mem |-> Put(Put(m5, h5 - 1, <<10>>, g), 8,
                          <<(h5 - 10) % 256, ((h5 - 10) \div 256) % 256>>, g)]
      Padded(m4, h4, h5) ==
        Finish(Put(m4, h4, [k \in 1..(h5 - h4) |-> 32], g), h5)
      \* while (hdr < hdr_end && ((hdr - hdr_end) % 16)) *hdr++ = ' '
      Pad(m4, h4) ==
        Padded(m4, h4, IF h4 < sz THEN h4 + ((sz - h4) % 16) ELSE h4)
      Shape(sh) ==
        IF sh.err # 0 THEN [err |-> sh.err, mem |-> sh.mem, out |-> 0]
        ELSE Pad(sprintf(sh.mem, sh.hdr, S_close_dict, g),
                 sh.hdr + Len(S_close_dict))
      ShapeKey(m2, h2) ==
        Shape(SaveShape(sprintf(m2, h2, S_shape_key, g), h2 + Len(S_shape_key),
                        0, array, sz, g))
      Fortran(m1, h1, t2) == ShapeKey(sprintf(m1, h1, t2, g), h1 + Len(t2))
      DescrDone(m1, h1) ==
        Fortran(m1, h1,
                S_fortran_key
                \o (IF array.fortran_order # 0 THEN S_True ELSE S_False)
                \o S_item_sep)
      Descr(m0, t1) == DescrDone(sprintf(m0, 10, t1, g), 10 + Len(t1))
  IN IF sz < 64 THEN [err |-> ERANGE, mem |-> <<>>, out |-> 0]
     ELSE Descr(Put(<<>>, 0, S_magic \o <<1, 0>>, g),
                S_open_descr
                \o <<IF array.little_endian # 0 THEN 60 ELSE 62,
                     IF array.floating_point # 0 THEN 102
                     ELSE IF array.is_signed # 0 THEN 105 ELSE 117>>
                \o FormatInt(array.bit_width \div 8) \o S_close_item)

\* sizeof(hdr_buf) in npio_save_fd
HdrBufSize == 65536

\* write(fd, src, count), src holding bytes: [n, w]
Write(w, src, bytes, count, beh, g) ==
  LET n == IF beh = "fail" THEN -1
           ELSE IF beh = "short" THEN Max(count - 1, 0) ELSE count
  IN [n |-> n,
      w |-> [w EXCEPT !.errno = IF beh = "fail" THEN EIO ELSE @,
                      !.sink = @ \o Slice(bytes, 0, Max(n, 0), g),
                      !.writes = Append(@, [buf |-> src, count |-> count, n |-> n])]]

\* beh: the behaviours of the write calls, in order; [err, w]
npio_save_fd(w, array, env, beh) ==
  LET DataWritten(w2, count) ==
        IF w2.n # count THEN [err |-> w2.w.errno, w |-> w2.w]
        ELSE [err |-> 0, w |-> w2.w]
      Data(w1, count) ==
        DataWritten(Write(w1, "data", array.data.mem, count, beh[2], env.g),
                    count)
      Size(w1, sz) ==
        IF IsNegative(sz) THEN [err |-> ERANGE, w |-> w1]
        ELSE Data(w1, IF IsSmall(sz) THEN ToNat(sz) ELSE 2147483647)
      HeaderWritten(w1, out) ==
        IF w1.n < out THEN [err |-> w1.w.errno, w |-> w1.w]
        ELSE Size(w1.w, npio_array_memsize(array, env.g))
      Header(h) ==
        IF h.err # 0 THEN [err |-> h.err, w |-> w]
        ELSE HeaderWritten(Write(w, "hdr_buf", h.mem, h.out, beh[1], env.g),
                           h.out)
  IN Header(npio_save_header_mem(HdrBufSize, array, env.g))

(***************************************************************************)
(* Releasing a descriptor.  g_freed lists what the call released.          *)
(***************************************************************************)
npio_free_array(array) ==
  [array EXCEPT
     !.dtype = <<>>, !.shape = <<>>,
     !._buf = IF array._mmapped # 0 THEN "null" ELSE @,
     !._fd = IF array._fd >= 0 THEN -1 ELSE @,
     !._hdr_buf = <<>>]

\* the releases npio_free_array(array) performs, in order
FreeEvents(array) ==
  (IF array.dtype # <<>> THEN <<"free dtype">> ELSE <<>>)
  \o (IF array.shape # <<>> THEN <<"free shape">> ELSE <<>>)
  \o (IF array._mmapped # 0 THEN <<"munmap">> ELSE <<>>)
  \o (IF array._fd >= 0 THEN <<"close">> ELSE <<>>)
  \o (IF array._hdr_buf # <<>> THEN <<"free hdr_buf">> ELSE <<>>)

(***************************************************************************)
(* The state: a caller of the library, its descriptor and its world.       *)
(*   pc     where the caller is                                            *)
(*   env    the build and the platform: char_signed, whether char is       *)
(*          signed; host_le, the byte order; g, the byte that memory the   *)
(*          program never wrote holds; null_page and null_text, whether    *)
(*          address 0 is readable and what lies there; heap_below_stack    *)
(*          and buf_low, where the allocations lie; malloc0_null, whether  *)
(*          malloc(0) returns null                                         *)
(*   input  what the caller was given: a descriptor to save, or the items  *)
(*          a header text was made of                                      *)
(*   buf    the caller's memory buffer                                     *)
(*   w      the world (see Read)                                           *)
(*   array  the npio_Array the loads fill                                  *)
(*   ret    the value the last call returned                               *)
(*   last   the last call and its arguments                                *)
(***************************************************************************)
VARIABLES pc, env, input, buf, w, array, ret, last

vars == <<pc, env, input, buf, w, array, ret, last>>

Env0 ==
  [char_signed |-> TRUE, host_le |-> TRUE, g |-> 0, null_page |-> FALSE,
   null_text |-> <<0>>, heap_below_stack |-> TRUE, buf_low |-> FALSE,
   malloc0_null |-> FALSE]

World0(file) ==
  [file |-> file, pos |-> 0, stdin |-> <<>>, stdin_pos |-> 0, errno |-> 0,
   sink |-> <<>>, reads |-> <<>>, writes |-> <<>>]

Array0(e) == npio_init_array(RawArray(0), e.host_le)

NoCall == [op |-> "none"]

(***************************************************************************)
(* SpecPrelude: npio_load_header_prelude_ on the first bytes of a file     *)
(***************************************************************************)
\* the values the bytes of the length field take
LenBytes == {0, 1, 118, 127, 128, 134, 255}

\* the values of the major version byte
MajorBytes == {0, 1, 2, 3}

PreludeInputs ==
  {m \o <<major, 0, b0, b1, b2, b3>> :
     m \in {S_magic, <<0>> \o Tail(S_magic)}, major \in MajorBytes,
     b0 \in LenBytes, b1 \in LenBytes, b2 \in {0, 1, 255}, b3 \in {0, 127, 128}}

InitPrelude ==
  /\ pc = "start"
  /\ env \in {[Env0 EXCEPT !.char_signed = cs] : cs \in BOOLEAN}
  /\ input = <<>>
  /\ buf \in PreludeInputs
  /\ w = World0(<<>>)
  /\ array = Array0(env)
  /\ ret = 0
  /\ last = NoCall

DoLoadHeaderPrelude ==
  /\ pc = "start"
  /\ LET Returned(r) ==
           /\ array' = r.a
           /\ ret' = r.err
           /\ last' = [op |-> "npio_load_header_prelude_", p |-> r.p]
     IN Returned(npio_load_header_prelude_(buf, array, env))
  /\ pc' = "done"
  /\ UNCHANGED <<env, input, buf, w>>

SpecPrelude == InitPrelude /\ [][DoLoadHeaderPrelude]_vars

\* C4: the prelude decoder returns EINVAL on a magic mismatch, ENOTSUP on a
\* major version other than 1 and 2, and otherwise sets header_len to the
\* unsigned little-endian value of the length field: two bytes for major 1,
\* four bytes for major 2.
C4_PreludeDecodesUnsignedLE ==
  pc = "done" =>
    LET magic_ok == SubSeq(buf, 1, 6) = S_magic
        major == buf[7]
    IN /\ ~magic_ok => ret = EINVAL
       /\ magic_ok /\ major \notin {1, 2} => ret = ENOTSUP
       /\ magic_ok /\ major = 1 =>
            ret = 0 /\ array.header_len = <<buf[9], buf[10], 0, 0, 0, 0, 0, 0>>
       /\ magic_ok /\ major = 2 =>
            ret = 0 /\ array.header_len
                         = <<buf[9], buf[10], buf[11], buf[12], 0, 0, 0, 0>>

(***************************************************************************)
(* SpecShape: npio_ph_parse_shape_ on a text                               *)
(***************************************************************************)
\* ( ) , space 0 1 x
ShapeAlphabet == {40, 41, 44, 32, 48, 49, 120}

MaxShapeText == 5

InitShape ==
  /\ pc = "start"
  /\ env = Env0
  /\ input = <<>>
  /\ buf \in UNION {[1..n -> ShapeAlphabet] : n \in 0..MaxShapeText}
  /\ w = World0(<<>>)
  /\ array = Array0(env)
  /\ ret = 0
  /\ last = NoCall

DoParseShape ==
  /\ pc = "start"
  /\ LET Returned(r) ==
           /\ array' = r.a
           /\ ret' = r.err
           /\ last' = [op |-> "npio_ph_parse_shape_", p |-> r.p]
     IN Returned(npio_ph_parse_shape_(array, buf, 0, Len(buf), env.g))
  /\ pc' = "done"
  /\ UNCHANGED <<env, input, buf, w>>

SpecShape == InitShape /\ [][DoParseShape]_vars

\* the grammar '(' ws* (int ws* ',' ws*)* int? ws* ')' : TupleRest matches
\* what may follow '(' or a comma, AfterInt what may follow an integer
RECURSIVE TupleRest(_, _)
RECURSIVE AfterInt(_, _)
TupleRest(t, i) ==
  IF i > Len(t) THEN FALSE
  ELSE IF isspace(t[i]) THEN TupleRest(t, i + 1)
  ELSE IF IsDigit(t[i]) THEN AfterInt(t, i + 1)
  ELSE t[i] = 41 /\ i = Len(t)

AfterInt(t, i) ==
  IF i > Len(t) THEN FALSE
  ELSE IF IsDigit(t[i]) /\ IsDigit(t[i - 1]) THEN AfterInt(t, i + 1)
  ELSE IF isspace(t[i]) THEN AfterInt(t, i + 1)
  ELSE IF t[i] = 44 THEN TupleRest(t, i + 1)
  ELSE t[i] = 41 /\ i = Len(t)

InTupleGrammar(t) == Len(t) >= 1 /\ t[1] = 40 /\ TupleRest(t, 2)

\* C5: the tuple parser accepts exactly the texts of the grammar
\* '(' ws* (int ws* ',' ws*)* int? ws* ')'; a text in which a comma is not
\* preceded by an integer, such as "(1,,2)" or "(,)", is rejected with EINVAL.
C5_RejectsMalformedTuples ==
  pc = "done" =>
    /\ InTupleGrammar(buf) => ret = 0 /\ last.p = Len(buf)
    /\ ret = 0 => InTupleGrammar(SubSeq(buf, 1, last.p))
    /\ ret # 0 => ret = EINVAL

(***************************************************************************)
(* Header texts and files, as a writer of the format lays them out         *)
(***************************************************************************)
Spaces(n) == [i \in 1..n |-> 32]

\* 'key': value
Item(key, keytext, valuetext, val) ==
  [key |-> key, val |-> val,
   text |-> <<39>> \o keytext \o <<39, 58, 32>> \o valuetext]

Quoted(text) == <<39>> \o text \o <<39>>

RECURSIVE ItemsText(_)
ItemsText(items) ==
  IF items = <<>> THEN <<>>
  ELSE Head(items).text \o <<44, 32>> \o ItemsText(Tail(items))

\* { item, item, ... }
DictOf(items) == <<123>> \o ItemsText(items) \o <<125>>

PreludeSize(major) == IF major = 1 THEN 10 ELSE 12

\* the prelude, the dictionary padded with spaces and ended by a newline so
\* that the data starts at a multiple of 16 (plus pad more), and the data
MkFile(major, dict, pad, payload) ==
  LET pl == PreludeSize(major)
      total == ((pl + Len(dict) + 1 + 15) \div 16) * 16 + pad
      hlen == total - pl
  IN S_magic \o <<major, 0, hlen % 256, hlen \div 256>>
     \o (IF major = 2 THEN <<0, 0>> ELSE <<>>)
     \o dict \o Spaces(hlen - Len(dict) - 1) \o <<10>> \o payload

\* '<f4' '>i2' '<u1'
D_f4 == Item("descr", S_descr, Quoted(<<60, 102, 52>>), <<60, 102, 52>>)
D_i2 == Item("descr", S_descr, Quoted(<<62, 105, 50>>), <<62, 105, 50>>)
D_u1 == Item("descr", S_descr, Quoted(<<60, 117, 49>>), <<60, 117, 49>>)
F_True == Item("fortran_order", S_fortran_order, S_True, <<1>>)
F_False == Item("fortran_order", S_fortran_order, S_False, <<0>>)
\* () (3,) (2, 3) (1,1,1,1,1,1,1,1,1)
Sh_scalar == Item("shape", S_shape, <<40, 41>>, <<>>)
Sh_3 == Item("shape", S_shape, <<40, 51, 44, 41>>, <<3>>)
Sh_2_3 == Item("shape", S_shape, <<40, 50, 44, 32, 51, 41>>, <<2, 3>>)
Sh_nine == Item("shape", S_shape, <<40, 49, 44, 49, 44, 49, 44, 49, 44, 49, 44, 49, 44, 49, 44, 49, 44, 49, 41>>, <<1, 1, 1, 1, 1, 1, 1, 1, 1>>)

(***************************************************************************)
(* SpecDict: npio_load_header_mem4 on a header whose dictionary is made of *)
(* up to MaxItems items, then npio_free_array                              *)
(***************************************************************************)
DictItems == {D_f4, D_i2, F_True, F_False, Sh_scalar, Sh_3, Sh_2_3, Sh_nine}

MaxItems == 3

InitDict ==
  /\ pc = "start"
  /\ env \in {[Env0 EXCEPT !.null_page = np, !.null_text = nt] :
                np \in BOOLEAN, nt \in {<<0>>}}
  /\ input \in UNION {[1..n -> DictItems] : n \in 0..MaxItems}
  /\ buf = MkFile(1, DictOf(input), 0, <<>>)
  /\ w = World0(<<>>)
  /\ array = Array0(env)
  /\ ret = 0
  /\ last = NoCall

DoLoadHeaderMem4 ==
  /\ pc = "start"
  /\ LET Returned(r) ==
           /\ array' = r.a
           /\ ret' = r.err
           /\ last' = [op |-> "npio_load_header_mem4", p |-> r.p]
     IN Returned(npio_load_header_mem4(buf, array, env))
  /\ pc' = "header"
  /\ UNCHANGED <<env, input, buf, w>>

\* the caller releases the descriptor, unless the process died
DoFreeArray ==
  /\ pc \in {"header", "loaded"}
  /\ ret # CRASHED
  /\ array' = npio_free_array(array)
  /\ last' = [op |-> "npio_free_array", events |-> FreeEvents(array),
              fd |-> array._fd, before |-> last]
  /\ pc' = "freed"
  /\ UNCHANGED <<env, input, buf, w, ret>>

SpecDict == InitDict /\ [][DoLoadHeaderMem4 \/ DoFreeArray]_vars

\* the values of the items with a key, in the order of the text
RECURSIVE ValuesOf(_, _)
ValuesOf(items, key) ==
  IF items = <<>> THEN <<>>
  ELSE (IF Head(items).key = key THEN <<Head(items).val>> ELSE <<>>)
       \o ValuesOf(Tail(items), key)

LastOf(seq) == seq[Len(seq)]

\* C6: parsing a dictionary that lacks the descr key ends with an error
\* code: the dtype decoder is never run on a dtype string that was not set,
\* and the call returns, so that the descriptor can be released.
C6_MissingDescrRejected ==
  pc = "header" /\ ValuesOf(input, "descr") = <<>> =>
    ret # 0 /\ ret # CRASHED /\ ~array.g_null

\* C7: when a key occurs more than once, the parsed field holds the value of
\* its last occurrence: the dtype text, fortran_order, and for shape dim is
\* the length of the last tuple and shape[0..dim-1] its entries.
C7_LastOccurrenceWins ==
  pc = "header" /\ ret = 0 =>
    LET ds == ValuesOf(input, "descr")
        fs == ValuesOf(input, "fortran_order")
        ss == ValuesOf(input, "shape")
    IN /\ Len(ds) > 1 => array.dtype = LastOf(ds) \o <<0>>
       /\ Len(fs) > 1 => array.fortran_order = LastOf(fs)[1]
       /\ Len(ss) > 1 =>
            /\ array.dim = Len(LastOf(ss))
            /\ \A i \in 1..Len(LastOf(ss)) : array.shape[i] = U64(LastOf(ss)[i])

(***************************************************************************)
(* Descriptors a caller builds for saving                                  *)
(***************************************************************************)
\* the data of n bytes: 1, 2, 3, ...
Payload(n) == [i \in 1..n |-> i % 256]

\* kind is "i", "u" or "f"; dims the shape
DescriptorFields(e, kind, bit_width, fortran_order, dims) ==
  [Array0(e) EXCEPT
     !.floating_point = IF kind = "f" THEN 1 ELSE 0,
     !.is_signed = IF kind = "u" THEN 0 ELSE 1,
     !.bit_width = bit_width,
     !.fortran_order = fortran_order,
     !.dim = Len(dims),
     !.shape = [i \in 1..Len(dims) |-> U64(dims[i])]]

\* the length of the longest shape saved
MaxDims == 7

\* (0, 1000000000, ..., 1000000000): no element, and a header text that does
\* not fit 128 bytes
LongShape == [i \in 1..MaxDims |-> IF i = 1 THEN 0 ELSE 1000000000]

\* the same with data pointing at the caller's elements
Descriptor(e, kind, bit_width, fortran_order, dims) ==
  LET a == DescriptorFields(e, kind, bit_width, fortran_order, dims)
  IN [a EXCEPT !.data = [kind |-> "caller", off |-> 0,
                         mem |-> Payload(ToNat(npio_array_memsize(a, e.g)))]]

(***************************************************************************)
(* SpecSaveHdr: npio_save_header_mem into a buffer of sz bytes             *)
(***************************************************************************)
MaxSaveSize == 150

SaveHdrInputs(e) ==
  {DescriptorFields(e, kind, 32, fo, dims) :
     kind \in {"f", "u"}, fo \in {0, 1},
     dims \in {<<>>, <<3>>, <<2, 3>>, <<10, 200, 3000>>, LongShape}}

InitSaveHdr ==
  /\ pc = "start"
  /\ env = Env0
  /\ input \in SaveHdrInputs(env)
  /\ buf = <<>>
  /\ w = World0(<<>>)
  /\ array = Array0(env)
  /\ ret = 0
  /\ last = NoCall

DoSaveHeaderMem ==
  /\ pc = "start"
  /\ \E sz \in 0..MaxSaveSize :
       LET Returned(r) ==
             /\ buf' = r.mem
             /\ ret' = r.err
             /\ last' = [op |-> "npio_save_header_mem", sz |-> sz, out |-> r.out]
       IN Returned(npio_save_header_mem(sz, input, env.g))
  /\ pc' = "done"
  /\ UNCHANGED <<env, input, w, array>>

SpecSaveHdr == InitSaveHdr /\ [][DoSaveHeaderMem]_vars

\* C2: whenever npio_save_header_mem returns 0, for every buffer size
\* sz >= 64, multiple of 16 or not, the header length written into bytes 8-9
\* plus the 10 bytes of the prelude is a multiple of 16, and it is out - p.
C2_SavedHeaderAligned ==
  pc = "done" /\ ret = 0 /\ last.sz >= 64 =>
    /\ buf[9] + 256 * buf[10] + 10 = last.out
    /\ last.out % 16 = 0

(***************************************************************************)
(* SpecFile: a caller saves a descriptor with npio_save_fd and opens what  *)
(* was written, or is given a file; it loads the file in one call          *)
(* (npio_load_fd3) or the header first (npio_load_header_fd3 on the        *)
(* descriptor, npio_load_header_mem4 on the bytes in memory) and then the  *)
(* data (npio_load_data2), and releases the descriptor.                    *)
(***************************************************************************)
NPIO_DEFAULT_MAX_DIM == 32

SaveDims == {<<>>, <<3>>, <<2, 3>>, LongShape}

SaveInputs(e) ==
  {Descriptor(e, t[1], t[2], fo, dims) :
     t \in {<<"f", 32>>, <<"i", 16>>, <<"u", 8>>, <<"f", 64>>},
     fo \in {0, 1}, dims \in SaveDims}

\* (4294967296, 4294967296): 2^32 * 2^32 elements
Sh_wide == Item("shape", S_shape, <<40, 52, 50, 57, 52, 57, 54, 55, 50, 57, 54, 44, 32, 52, 50, 57, 52, 57, 54, 55, 50, 57, 54, 41>>, <<>>)
\* (2,)
Sh_2 == Item("shape", S_shape, <<40, 50, 44, 41>>, <<2>>)

CraftedFiles ==
  {<<>>, SubSeq(S_magic, 1, 5),
   MkFile(1, DictOf(<<D_u1, F_False, Sh_2>>), 0, Payload(2)),
   MkFile(1, DictOf(<<D_u1, F_False, Sh_2>>), 0, Payload(1)),
   MkFile(1, DictOf(<<D_u1, F_False, Sh_2>>), 0, Payload(3)),
   MkFile(1, DictOf(<<D_u1, F_False, Sh_2>>), 8, Payload(2)),
   MkFile(1, DictOf(<<D_u1, F_False, Sh_2>>), 96, Payload(2)),
   MkFile(2, DictOf(<<D_f4, F_True, Sh_2_3>>), 0, Payload(24)),
   MkFile(1, DictOf(<<D_i2, F_False, Sh_3>>), 0, Payload(6)),
   MkFile(1, DictOf(<<D_u1, F_False, Sh_wide>>), 0, <<>>),
   MkFile(1, DictOf(<<D_u1, F_False>>), 0, Payload(1)),
   MkFile(3, DictOf(<<D_u1, F_False, Sh_2>>), 0, Payload(2))}

FileEnvs == {[Env0 EXCEPT !.host_le = le] : le \in BOOLEAN}

InitFile ==
  /\ env \in FileEnvs
  /\ array = Array0(env)
  /\ ret = 0
  /\ last = NoCall
  /\ \/ /\ pc = "start"
        /\ input \in {[kind |-> "descriptor", array |-> d] : d \in SaveInputs(env)}
        /\ buf = <<>>
        /\ w = World0(<<>>)
     \/ /\ pc = "file"
        /\ input = [kind |-> "file"]
        /\ buf \in CraftedFiles
        /\ w = World0(buf)

DoSaveFd ==
  /\ pc = "start"
  /\ \E beh \in [1..2 -> Behaviours] :
       LET Returned(r) ==
             /\ w' = r.w
             /\ ret' = r.err
             /\ last' = [op |-> "npio_save_fd", beh |-> beh]
       IN Returned(npio_save_fd(w, input.array, env, beh))
  /\ pc' = "saved"
  /\ UNCHANGED <<env, input, buf, array>>

\* the caller opens the file the save wrote, and has its bytes in memory
DoReopen ==
  /\ pc = "saved"
  /\ ret = 0
  /\ w' = [World0(w.sink) EXCEPT !.writes = w.writes]
  /\ buf' = w.sink
  /\ pc' = "file"
  /\ UNCHANGED <<env, input, array, ret, last>>

AllFull == [i \in 1..3 |-> "full"]

\* the read calls behave well, or one of them does not
LoadBehaviours ==
  {AllFull} \cup {[AllFull EXCEPT ![i] = b] : i \in 1..3, b \in {"short", "fail"}}

DoLoadFd3 ==
  /\ pc = "file"
  /\ \E seek_ok \in BOOLEAN, map_ok \in BOOLEAN, beh \in LoadBehaviours :
       LET Returned(r) ==
             /\ w' = r.w
             /\ array' = r.a
             /\ ret' = r.err
             /\ last' = [op |-> "npio_load_fd3", seek_ok |-> seek_ok,
                map_ok |-> map_ok, beh |-> beh]
       IN Returned(npio_load_fd3(w, TheFd, array, NPIO_DEFAULT_MAX_DIM, env, seek_ok, map_ok, beh))
  /\ pc' = "loaded"
  /\ UNCHANGED <<env, input, buf>>

DoLoadHeaderFd3 ==
  /\ pc = "file"
  /\ \E seek_ok \in BOOLEAN, map_ok \in BOOLEAN :
       LET Returned(r) ==
             /\ w' = r.w
             /\ array' = r.a
             /\ ret' = r.err
             /\ last' = [op |-> "npio_load_header_fd3", seek_ok |-> seek_ok,
                map_ok |-> map_ok, beh |-> AllFull]
       IN Returned(npio_load_header_fd3(w, TheFd, array, NPIO_DEFAULT_MAX_DIM, env, seek_ok, map_ok, AllFull))
  /\ pc' = "header"
  /\ UNCHANGED <<env, input, buf>>

DoLoadHeaderMem ==
  /\ pc = "file"
  /\ LET Returned(r) ==
           /\ array' = r.a
           /\ ret' = r.err
           /\ last' = [op |-> "npio_load_header_mem4", p |-> r.p]
     IN Returned(npio_load_header_mem4(buf, array, env))
  /\ pc' = "header"
  /\ UNCHANGED <<env, input, buf, w>>

DoLoadData2 ==
  /\ pc = "header"
  /\ ret = 0
  /\ \E swap_bytes \in {0, 1}, beh \in Behaviours :
       LET Returned(r) ==
             /\ w' = r.w
             /\ array' = r.a
             /\ ret' = r.err
             /\ last' = [op |-> "npio_load_data2", swap_bytes |-> swap_bytes,
                header |-> last.op]
       IN Returned(npio_load_data2(w, array, swap_bytes, env, beh))
  /\ pc' = "loaded"
  /\ UNCHANGED <<env, input, buf>>

SpecFile ==
  InitFile /\ [][DoSaveFd \/ DoReopen \/ DoLoadFd3 \/ DoLoadHeaderFd3
                 \/ DoLoadHeaderMem \/ DoLoadData2 \/ DoFreeArray]_vars

\* every write call stored all it was asked to
AllWritten == \A i \in DOMAIN w.writes : w.writes[i].n = w.writes[i].count

\* C1: for a descriptor of a supported dtype with the host's endianness tag,
\* npio_save_fd followed by a load of the produced bytes through the mapped
\* strategy of npio_load_fd3 returns 0 and yields the same dim, the same
\* shape entries, the same floating_point / is_signed / bit_width, the same
\* fortran_order and a byte-identical payload.
C1_RoundTrip ==
  pc = "loaded" /\ input.kind = "descriptor" /\ AllWritten
  /\ last.op = "npio_load_fd3" /\ last.seek_ok /\ last.map_ok =>
    LET d == input.array
    IN /\ ret = 0
       /\ array.dim = d.dim
       /\ \A i \in 1..d.dim : array.shape[i] = d.shape[i]
       /\ array.floating_point = d.floating_point
       /\ array.is_signed = d.is_signed
       /\ array.bit_width = d.bit_width
       /\ array.fortran_order = d.fortran_order
       /\ array.data.mem = d.data.mem

\* every file of the model is shorter than Huge bytes: a natural number
\* counts as Huge once it reaches Huge
Huge == 1073741824

\* x * y, or Huge
SatMul(x, y) ==
  IF x = 0 \/ y = 0 THEN 0 ELSE IF x > Huge \div y THEN Huge ELSE x * y

\* the value of a size_t, or Huge
SizeNat(a) == IF IsSmall(a) THEN Min(ToNat(a), Huge) ELSE Huge

\* the product of the first i shape entries, without wrap-around
RECURSIVE ExactSize(_, _)
ExactSize(a, i) ==
  IF i = 0 THEN 1 ELSE SatMul(ExactSize(a, i - 1), SizeNat(a.shape[i]))

\* payloadOffset + (product of the shape entries) * bit_width / 8 is the
\* size of the mapping
ExactFit(a) ==
  LET offset == SizeNat(a.header_len) + (IF a.major_version = 1 THEN 10 ELSE 12)
      elements == ExactSize(a, a.dim)
      bytes == IF a.bit_width % 8 = 0 THEN SatMul(elements, a.bit_width \div 8)
               ELSE SatMul(elements, a.bit_width) \div 8
  IN bytes < Huge \div 8 /\ offset + bytes = a._buf_size

\* C3: npio_load_data2 on a mapped source returns 0 only when the payload
\* offset plus the product of the shape entries times bit_width / 8 equals
\* the mapped size exactly; on any shortfall or excess it returns an error
\* and array->data is not set.
C3_MappedSizeMismatchDetected ==
  pc = "loaded" /\ last.op = "npio_load_data2" /\ array._mmapped # 0 =>
    /\ ret = 0 => ExactFit(array)
    /\ ~ExactFit(array) => ret # 0 /\ array.data = NullData

\* C8: when the source is not mapped, npio_load_data2 returns 0 only if the
\* read of the data returned exactly the byte count asked for; when it
\* returned fewer bytes, errno changed or not, the return value is nonzero.
C8_BufferedReadExactOrFails ==
  pc = "loaded" /\ last.op = "npio_load_data2" /\ array._mmapped = 0 =>
    \A i \in DOMAIN w.reads :
      w.reads[i].buf = "data" /\ w.reads[i].n < w.reads[i].count => ret # 0

\* C9: npio_save_fd writes the serialized header once and then the payload
\* once; if either write transfers fewer bytes than asked for, errno set or
\* not, it returns a nonzero code, and after a short header write no payload
\* write is issued.
C9_SaveWriteProtocol ==
  pc = "saved" =>
    /\ ret = 0 =>
         /\ Len(w.writes) = 2
         /\ w.writes[1].buf = "hdr_buf" /\ w.writes[2].buf = "data"
    /\ ~AllWritten => ret # 0
    /\ Len(w.writes) >= 1 /\ w.writes[1].n < w.writes[1].count =>
         Len(w.writes) = 1

\* the load of the same file bytes through the mapped strategy
MappedLoad ==
  npio_load_fd3(World0(w.file), TheFd, Array0(env), NPIO_DEFAULT_MAX_DIM, env,
                TRUE, TRUE, AllFull)

\* C10: for the same bytes of a file that can be mapped, the buffered
\* strategy (lseek or mmap failed, every read transferring what it was
\* asked for) returns the same result code as the mapped strategy and, on
\* success, the same version, header_len, dim, shape, dtype classification,
\* fortran_order and payload.
C10_StrategiesAgree ==
  pc = "loaded" /\ last.op = "npio_load_fd3" /\ last.beh = AllFull
  /\ ~(last.seek_ok /\ last.map_ok) /\ Len(w.file) > 0 =>
    LET Same(m) ==
          /\ ret = m.err
          /\ ret = 0 =>
               /\ array.major_version = m.a.major_version
               /\ array.minor_version = m.a.minor_version
               /\ array.header_len = m.a.header_len
               /\ array.dim = m.a.dim
               /\ \A i \in 1..array.dim : array.shape[i] = m.a.shape[i]
               /\ array.floating_point = m.a.floating_point
               /\ array.is_signed = m.a.is_signed
               /\ array.bit_width = m.a.bit_width
               /\ array.little_endian = m.a.little_endian
               /\ array.fortran_order = m.a.fortran_order
               /\ array.data.mem = m.a.data.mem
    IN Same(MappedLoad)

(***************************************************************************)
(* The life of a descriptor: npio_init_array, one load of a file or of a   *)
(* memory buffer, npio_free_array, and npio_free_array once more.          *)
(* npio_init_array leaves _opened as it was: it holds zero or not.         *)
(* Descriptor 0 is the standard input of the process.                      *)
(***************************************************************************)
\* {'descr': '<u1', 'descr': '<u1', 'fortran_order': False,
\*  'shape': (2,), 'shape': (2,), }
TwiceFile ==
  MkFile(1, DictOf(<<D_u1, D_u1, F_False, Sh_2, Sh_2>>), 0, Payload(2))

LifeFiles ==
  {SubSeq(S_magic, 1, 5),
   MkFile(1, DictOf(<<D_u1, F_False, Sh_2>>), 0, Payload(2)),
   MkFile(1, DictOf(<<D_u1, F_False, Sh_2>>), 0, Payload(3)),
   MkFile(2, DictOf(<<D_i2, F_False, Sh_3>>), 0, Payload(6)),
   MkFile(1, DictOf(<<D_u1, F_False>>), 0, Payload(1)),
   TwiceFile}

InitLife ==
  /\ env \in FileEnvs
  /\ array \in {npio_init_array(RawArray(o), env.host_le) : o \in {0, 1}}
  /\ ret = 0
  /\ last = NoCall
  /\ pc = "file"
  /\ input = [kind |-> "file"]
  /\ buf \in LifeFiles
  /\ w \in {[World0(buf) EXCEPT !.stdin = s] : s \in {<<>>, Payload(8)}}

DoLoadHeader3 ==
  /\ pc = "file"
  /\ \E open_ok \in BOOLEAN, seek_ok \in BOOLEAN, map_ok \in BOOLEAN :
       LET Returned(r) ==
             /\ w' = r.w
             /\ array' = r.a
             /\ ret' = r.err
             /\ last' = [op |-> "npio_load_header3", events |-> r.events,
                         seek_ok |-> seek_ok, map_ok |-> map_ok]
       IN Returned(npio_load_header3(w, array, NPIO_DEFAULT_MAX_DIM, env,
                                     open_ok, seek_ok, map_ok, AllFull))
  /\ pc' = "header"
  /\ UNCHANGED <<env, input, buf>>

DoLoad3 ==
  /\ pc = "file"
  /\ \E open_ok \in BOOLEAN, seek_ok \in BOOLEAN, map_ok \in BOOLEAN :
       LET Returned(r) ==
             /\ w' = r.w
             /\ array' = r.a
             /\ ret' = r.err
             /\ last' = [op |-> "npio_load3", events |-> r.events,
                         seek_ok |-> seek_ok, map_ok |-> map_ok]
       IN Returned(npio_load3(w, array, NPIO_DEFAULT_MAX_DIM, env,
                              open_ok, seek_ok, map_ok, AllFull))
  /\ pc' = "loaded"
  /\ UNCHANGED <<env, input, buf>>

\* the caller hands the bytes of the file as a buffer in memory
DoLoadMem4 ==
  /\ pc = "file"
  /\ \E beh \in Behaviours :
       LET Returned(r) ==
             /\ w' = r.w
             /\ array' = r.a
             /\ ret' = r.err
             /\ last' = [op |-> "npio_load_mem4", beh |-> beh]
       IN Returned(npio_load_mem4(w, buf, array, env, beh))
  /\ pc' = "loaded"
  /\ UNCHANGED <<env, input, buf>>

\* npio_free_array directly after npio_free_array
DoFreeAgain ==
  /\ pc = "freed"
  /\ array' = npio_free_array(array)
  /\ last' = [op |-> "npio_free_array", events |-> FreeEvents(array),
              fd |-> array._fd, before |-> last]
  /\ pc' = "freed twice"
  /\ UNCHANGED <<env, input, buf, w, ret>>

SpecLife ==
  InitLife /\ [][DoLoadHeader3 \/ DoLoadHeaderFd3 \/ DoLoadFd3 \/ DoLoad3
                 \/ DoLoadMem4 \/ DoFreeArray \/ DoFreeAgain]_vars

\* C11: when npio_load_mem4(p, sz, array) returns 0, array->data points
\* into the caller's buffer at the payload offset (the size of the prelude
\* plus header_len), the payload is not copied to the heap, and no file
\* descriptor is read.
C11_LoadMemZeroCopy ==
  pc = "loaded" /\ last.op = "npio_load_mem4" /\ ret = 0 =>
    /\ array.data.kind = "map"
    /\ array.data.off
         = PreludeSize(array.major_version) + ToInt(array.header_len)
    /\ array.data.off <= Len(buf)
    /\ w.reads = <<>>

\* the open and close calls a load made itself
LoadEvents(call) == IF "events" \in DOMAIN call THEN call.events ELSE <<>>

\* how many of the events are e
Count(events, e) == Cardinality({i \in DOMAIN events : events[i] = e})

\* how often the load and the npio_free_array after it closed TheFd
Closes(free) ==
  Count(LoadEvents(free.before), "close")
  + (IF free.fd = TheFd THEN Count(free.events, "close") ELSE 0)

\* C12: after npio_init_array and one load operation, whatever its outcome,
\* a single npio_free_array leaves no heap buffer outstanding (dtype text,
\* shape buffer, header buffer, heap-allocated payload), no mapping and no
\* descriptor the library opened, and over the whole sequence nothing is
\* freed, unmapped or closed more than once.
C12_ReleasedExactlyOnce ==
  pc = "freed" =>
    /\ array.dtype = <<>> /\ array.shape = <<>> /\ array._hdr_buf = <<>>
    /\ array.g_leaks = 0
    /\ array.data.kind # "heap"
    /\ array._mmapped # 0 => Count(last.events, "munmap") = 1
    /\ Closes(last) <= 1
    /\ Count(LoadEvents(last.before), "open") = 1 => Closes(last) = 1

\* C13: a second npio_free_array directly after a first one performs no
\* munmap, no close and no free, and leaves the descriptor as the first
\* call left it.
C13_FreeIdempotent ==
  [][pc = "freed" /\ pc' = "freed twice" =>
       FreeEvents(array) = <<>> /\ array' = array]_vars

\* C14: after every successful header load array->size, the element count
\* the loader uses for the buffered payload length and for the byte swap,
\* equals the product of shape[0..dim-1], the empty shape giving 1, also
\* when the dictionary has no shape key.
C14_SizeIsShapeProduct ==
  pc = "header" /\ last.op = "npio_load_header_mem4" /\ ret = 0 =>
    SizeNat(array.size) = ExactSize(array, array.dim)

(***************************************************************************)
(* SpecSwap: npio_swap_bytes on a buffer of n elements followed by         *)
(* SwapSlack bytes that are not part of the data, and npio_swap_bytes on   *)
(* the result once more.                                                   *)
(***************************************************************************)
\* the largest number of elements swapped
MaxSwapN == 3
\* the bytes of the buffer behind the elements
SwapSlack == 2

SwapWidths == {0, 8, 16, 24, 32, 64, 128}

\* len bytes, all different within an element
SwapPattern(len, k) == [i \in 1..len |-> (i * k + 7) % 256]

SwapInputs ==
  {[kind |-> "swap", n |-> n, bit_width |-> bw,
    data |-> SwapPattern(n * (bw \div 8) + SwapSlack, k)] :
     n \in 0..MaxSwapN, bw \in SwapWidths, k \in {1, 3, 255}}

InitSwap ==
  /\ pc = "start"
  /\ env \in {[Env0 EXCEPT !.g = g] : g \in {0, 170}}
  /\ input \in SwapInputs
  /\ buf = input.data
  /\ w = World0(<<>>)
  /\ array = Array0(env)
  /\ ret = 0
  /\ last = NoCall

DoSwapBytes ==
  /\ pc = "start"
  /\ LET Returned(r) ==
           /\ buf' = r.mem
           /\ ret' = r.err
           /\ last' = [op |-> "npio_swap_bytes", oob |-> r.oob]
     IN Returned(npio_swap_bytes(U64(input.n), input.bit_width, buf, env.g))
  /\ pc' = "swapped"
  /\ UNCHANGED <<env, input, w, array>>

DoSwapBytesAgain ==
  /\ pc = "swapped"
  /\ LET Returned(r) ==
           /\ buf' = r.mem
           /\ ret' = r.err
           /\ last' = [op |-> "npio_swap_bytes", oob |-> r.oob]
     IN Returned(npio_swap_bytes(U64(input.n), input.bit_width, buf, env.g))
  /\ pc' = "swapped twice"
  /\ UNCHANGED <<env, input, w, array>>

SpecSwap == InitSwap /\ [][DoSwapBytes \/ DoSwapBytesAgain]_vars

\* byte k of the data with each of the n elements of b bytes reversed
Reversed(data, n, b, k) ==
  IF k < n * b THEN data[(k \div b) * b + (b - 1 - (k % b)) + 1] ELSE data[k + 1]

\* C15: npio_swap_bytes(n, w, data) with w in {16, 32, 64} replaces byte j
\* of each of the n elements by its former byte w/8 - 1 - j, touches no
\* byte outside the first n * w / 8 and returns 0; w = 8 changes nothing
\* and returns 0; any other w returns ENOTSUP with the buffer unchanged;
\* applying it twice with the same n and w restores the original bytes.
C15_SwapBytesReverses ==
  /\ pc = "swapped" /\ input.bit_width \in {16, 32, 64} =>
       /\ ret = 0 /\ ~last.oob
       /\ Len(buf) = Len(input.data)
       /\ \A k \in 0..(Len(buf) - 1) :
            buf[k + 1] = Reversed(input.data, input.n, input.bit_width \div 8, k)
  /\ pc = "swapped" /\ input.bit_width = 8 => ret = 0 /\ buf = input.data
  /\ pc = "swapped" /\ input.bit_width \notin {8, 16, 32, 64} =>
       ret = ENOTSUP /\ buf = input.data
  /\ pc = "swapped twice" => buf = input.data /\ ~last.oob

\* 64 bit elements were swapped, and swapped back
C15_Swapped ==
  /\ pc = "swapped twice" /\ input.bit_width = 64 /\ input.n = MaxSwapN
  /\ ret = 0 /\ buf = input.data
  /\ buf # SwapElement(buf, 0, 8, env.g)

(***************************************************************************)
(* SpecHeaderLen: npio_load_header_mem4 on a buffer of at least 16 bytes   *)
(* whose HEADER_LEN field holds any of HeaderLens, whatever the length of  *)
(* the dictionary behind it.                                               *)
(***************************************************************************)
\* the low and the high byte of the HEADER_LEN field
HeaderLens ==
  {<<lo, hi>> : lo \in {0, 1, 7, 12, 20, 33, 41, 54, 128, 255},
                hi \in {0, 1, 255}}

HeaderDicts ==
  {DictOf(<<>>), DictOf(<<D_u1>>), DictOf(<<D_u1, F_False, Sh_2>>),
   DictOf(<<Sh_2_3, F_True, D_f4>>)}

InitHeaderLen ==
  /\ pc = "start"
  /\ env \in {[Env0 EXCEPT !.char_signed = cs, !.buf_low = bl] :
                cs \in BOOLEAN, bl \in BOOLEAN}
  /\ input \in {[kind |-> "header", len |-> hl, dict |-> d] :
                  hl \in HeaderLens, d \in HeaderDicts}
  /\ buf = S_magic \o <<1, 0>> \o input.len \o input.dict \o Spaces(5) \o <<10>>
  /\ w = World0(<<>>)
  /\ array = Array0(env)
  /\ ret = 0
  /\ last = NoCall

SpecHeaderLen == InitHeaderLen /\ [][DoLoadHeaderMem4 \/ DoFreeArray]_vars

\* C16: for every buffer of sz >= 16 bytes and every value of the header
\* length field, also one that exceeds the buffer, npio_load_header_mem4
\* and the parsers it calls read only bytes inside [p, p+sz), the cursor
\* ends inside the buffer, and the parse ends with a result code.
C16_ParserStaysInBuffer ==
  pc = "header" /\ Len(buf) >= 16 =>
    /\ ret # CRASHED
    /\ ~array.g_null
    /\ array.g_rd <= Len(buf)
    /\ last.p >= 0 /\ last.p <= Len(buf)

\* C17: for every header text, also one whose dictionary holds the shape
\* key more than once or a tuple of more than 8 entries, every write
\* shape[dim] of npio_ph_shape_append_ is at an index below
\* _shape_capacity, the number of entries allocated.
C17_ShapeWritesInCapacity ==
  pc = "header" /\ last.op = "npio_load_header_mem4" => ~array.g_oobw

\* C18: npio_save_header_mem(p, sz, array, out) either returns ERANGE or
\* writes every byte, the terminating NUL of each sprintf and snprintf
\* included, inside [p, p+sz); also for sz = 64 and dim = 0.
C18_SaveHeaderWritesInBuffer ==
  pc = "done" /\ last.op = "npio_save_header_mem" =>
    ret = ERANGE \/ Len(buf) <= last.sz

====
